---- MODULE Spec2Model ----
(***************************************************************************)
(* The PMC Open Access figure pipeline: src/src/fetch_oa.py (main flow,    *)
(* download_media), src/src/parser/parse_oa.py (get_volume_info,           *)
(* parse_xml, get_direct_image_url) and src/try.py                         *)
(* (download_images_from_jsonl).                                           *)
(*                                                                         *)
(* Python str values are TLA+ strings; an optional value (None or a value) *)
(* is a tuple of length 0 or 1.  The file system, the web site and the     *)
(* command line are the environment: their answers are chosen with \E.     *)
(***************************************************************************)
EXTENDS Integers, Sequences, FiniteSets, TLC

VARIABLES
    pc,             \* position of the running script
    \* ---- the file system under args.extraction_dir
    dir_exists,     \* the extraction directory exists
    archives,       \* it holds downloaded volume directories
    sidecar,        \* {extraction_dir}/{save_name}.jsonl: None or <<lines>>
    figures_dir,    \* {extraction_dir}/figures exists
    figures,        \* names of the files in the figures directory
    \* ---- the environment and the command line
    site,           \* src values the figure pages of the site may carry
    volumes,        \* args.volumes
    runs,           \* number of runs of fetch_oa.py started so far
    \* ---- get_volume_info
    vi,             \* position in volumes
    df,             \* rows ('Article File') of the manifest being walked
    ri,             \* position in df
    info,           \* the aggregate descriptor list
    origin,         \* history: where each element of info was read
    manifest_failed,\* history: pd.read_csv raised in this run
    nrows,          \* history: manifest rows read so far in this run
    \* ---- parse_xml
    caller,         \* who called parse_xml
    xml_path,
    doc,            \* the parsed markup of the article
    fi,             \* position in figs
    item_info,
    item_origin,    \* history: where each element of item_info was read
    error,          \* exception caught by parse_xml's handler ("" if none)
    http_gets,      \* requests.get calls issued by this parse_xml call
    response,       \* answer to the most recent requests.get (local)
    \* ---- download_media / download_images_from_jsonl
    volume_info,
    di,             \* position in volume_info
    attempts,       \* history: media_name of each item the loop body ran on
    dl_last         \* history: what the loop body did on the last item

vars == <<pc, dir_exists, archives, sidecar, figures_dir, figures, site,
          volumes, runs, vi, df, ri, info, origin, manifest_failed, nrows,
          caller, xml_path, doc, fi, item_info, item_origin, error, http_gets,
          response, volume_info, di, attempts, dl_last>>

fs_vars == <<dir_exists, archives, sidecar, figures_dir, figures>>
walk_vars == <<vi, df, ri, info, origin, manifest_failed, nrows>>
parse_vars == <<caller, xml_path, doc, fi, item_info, item_origin, error,
                http_gets, response>>
dl_vars == <<volume_info, di, attempts, dl_last>>

\* ------------------------------------------------------------------ bounds
MaxFigs == 2        \* fig elements per article of the stand-alone parse
MaxArticles == 2    \* manifest rows over all the volumes of one run
MaxRuns == 2        \* runs of fetch_oa.py over the same directory

\* ----------------------------------------------------------- Python values
None == << >>
Some(v) == <<v>>

StartsWith(s, p) == Len(s) >= Len(p) /\ SubSeq(s, 1, Len(p)) = p

RECURSIVE LastIndexOf(_, _, _)
\* the largest i <= n with s[i] = c, or 0
LastIndexOf(s, c, n) ==
    IF n = 0 THEN 0
    ELSE IF SubSeq(s, n, n) = c THEN n ELSE LastIndexOf(s, c, n - 1)

\* s.split('/')[-1]; also the file name wget derives from a URL
LastSegment(s) == SubSeq(s, LastIndexOf(s, "/", Len(s)) + 1, Len(s))

RECURSIVE LStrip(_, _)
LStrip(s, chars) ==
    IF Len(s) > 0 /\ SubSeq(s, 1, 1) \in chars
    THEN LStrip(SubSeq(s, 2, Len(s)), chars) ELSE s

RECURSIVE RStrip(_, _)
RStrip(s, chars) ==
    IF Len(s) > 0 /\ SubSeq(s, Len(s), Len(s)) \in chars
    THEN RStrip(SubSeq(s, 1, Len(s) - 1), chars) ELSE s

\* str.strip(chars): strips the characters of chars from both ends
Strip(s, chars) == RStrip(LStrip(s, chars), chars)

\* PMC_ID = xml_path.split('/')[-1].strip('.xml')
PMC_ID_of(path) == Strip(LastSegment(path), {".", "x", "m", "l"})

get_img_url(PMC_ID, graphic) ==
    "https://www.ncbi.nlm.nih.gov/pmc/articles/" \o PMC_ID \o "/figure/"
        \o graphic \o "/"

\* ------------------------------------------------- the answer of the site
\* What requests.get(page_url) and the parse of the page give: the call
\* raises, or answers with a status; a 200 page carries an img of class
\* 'graphic' with a src ("src"), one without src ("nosrc"), or none
\* ("absent").
Resp(raises, status, marker, src) ==
    [raises |-> raises, status |-> status, marker |-> marker, src |-> src]

Responses(srcs) ==
    {Resp(TRUE, 0, "absent", ""), Resp(FALSE, 404, "absent", ""),
     Resp(FALSE, 200, "absent", ""), Resp(FALSE, 200, "nosrc", "")}
    \cup {Resp(FALSE, 200, "src", s) : s \in srcs}

NoResponse == Resp(FALSE, 0, "absent", "")

get_direct_image_url_always_prefix(resp) ==
    IF resp.raises THEN None
    ELSE IF resp.status = 200
         THEN IF resp.marker = "src" THEN Some("https:" \o resp.src) ELSE None
         ELSE None

get_direct_image_url_keeps_src(resp) ==
    IF resp.raises THEN None
    ELSE IF resp.marker = "src" \/ resp.status # 200
         THEN Some("https:" \o resp.src)
         ELSE None

get_direct_image_url(resp) ==
    IF resp.raises THEN None
    ELSE IF resp.status = 200
         THEN IF resp.marker = "src"
              THEN IF StartsWith(resp.src, "https:")
                   THEN Some(resp.src)
                   ELSE Some("https:" \o resp.src)
              ELSE None
         ELSE None

\* ------------------------------------------------------------- the markup
Fig(id, child, href, caption) ==
    [id |-> id, child |-> child, href |-> href, caption |-> caption]

Doc(doi, figs) == [doi |-> doi, figs |-> figs]

NoDoc == Doc(None, << >>)

\* The variants of the i-th fig element of an article: a graphic child
\* with an xlink:href (with or without caption), a graphic child without
\* the attribute, a media child, no child of either kind.
FigVariants(i) ==
    LET id == "f" \o ToString(i) IN
    {Fig(id, "graphic", Some("g" \o ToString(i) \o ".png"), Some("cap")),
     Fig(id, "graphic", Some("a.b.tif"), None),
     Fig(id, "graphic", None, None),
     Fig(id, "media", Some("clip.avi"), Some("cap")),
     Fig(id, "none", None, None)}

RECURSIVE FigSeqs(_)
\* the fig sequences of length n, the i-th drawn from FigVariants(i)
FigSeqs(n) ==
    IF n = 0 THEN {<< >>}
    ELSE {Append(s, f) : s \in FigSeqs(n - 1), f \in FigVariants(n)}

AllDocs ==
    {Doc(Some("10.1/x"), s) : s \in UNION {FigSeqs(n) : n \in 0..MaxFigs}}

\* src values of the marker img: scheme-relative, https, http,
\* root-relative and bare
AllSrcs ==
    {"//cdn/bin/a.jpg", "//cdn/b.png", "https://cdn/bin/a.jpg",
     "https:/odd", "http://cdn/bin/a.jpg", "/bin/a.jpg", "a.jpg"}

media_name_keeps_extension(PMC_ID, media_id) ==
    PMC_ID \o "_" \o media_id \o ".png"

\* media_name = f'{PMC_ID}_{media_id}.jpg'
media_name_of(PMC_ID, media_id) == PMC_ID \o "_" \o media_id \o ".jpg"

Descriptor(PMC_ID, fig, url, doi) ==
    [PMC_ID |-> PMC_ID,
     media_id |-> fig.id,
     caption |-> IF fig.caption = None THEN "" ELSE fig.caption[1],
     media_webpage_url |-> get_img_url(PMC_ID, fig.id),
     Image_URL |-> url,
     media_name |-> media_name_of(PMC_ID, fig.id),
     doi |-> IF doi = None THEN "No DOI found" ELSE doi[1]]

extend_prepends(a, b) == b \o a

\* info += item_info
extend(a, b) == a \o b

\* --------------------------------------------------------------- parse_xml
CurFig == doc.figs[fi]

\* the exception handler of parse_xml: print, then return item_info
parse_except(e) ==
    /\ error' = e
    /\ pc' = "parse_ret"
    /\ UNCHANGED <<fi, item_info, item_origin, http_gets, response>>

parse_skip_raises == parse_except("UnsupportedMediaError")

\* else: continue  (a fig without a graphic child)
parse_skip ==
    /\ fi' = fi + 1
    /\ UNCHANGED <<pc, item_info, item_origin, error, http_gets, response>>

parse_graphic_offline ==
    /\ item_info' = Append(item_info,
                        Descriptor(PMC_ID_of(xml_path), CurFig, None, doc.doi))
    /\ item_origin' = Append(item_origin, <<vi, ri, fi, xml_path>>)
    /\ fi' = fi + 1
    /\ UNCHANGED <<pc, error, http_gets, response>>

\* the body of "if fig.graphic:".  fig.graphic.attrs['xlink:href'] raises
\* KeyError without the attribute; graphic_fixed, computed from it, is
\* used by nothing.  get_direct_image_url issues the request.
parse_graphic ==
    IF CurFig.href = None
    THEN parse_except("KeyError")
    ELSE \E resp \in Responses(site) :
            /\ response' = resp
            /\ http_gets' = http_gets + 1
            /\ item_info' = Append(item_info,
                                Descriptor(PMC_ID_of(xml_path), CurFig,
                                           get_direct_image_url(resp), doc.doi))
            /\ item_origin' = Append(item_origin, <<vi, ri, fi, xml_path>>)
            /\ fi' = fi + 1
            /\ UNCHANGED <<pc, error>>

\* one turn of "for fig in figs"
parse_fig ==
    /\ pc = "parse"
    /\ fi <= Len(doc.figs)
    /\ IF CurFig.child = "graphic" THEN parse_graphic ELSE parse_skip
    /\ UNCHANGED <<fs_vars, site, volumes, runs, walk_vars, caller, xml_path,
                   doc, dl_vars>>

\* the loop is over: fall through to "return item_info"
parse_done ==
    /\ pc = "parse"
    /\ fi > Len(doc.figs)
    /\ pc' = "parse_ret"
    /\ UNCHANGED <<fs_vars, site, volumes, runs, walk_vars, parse_vars,
                   dl_vars>>

\* return item_info; in get_volume_info the caller does info += item_info
parse_return ==
    /\ pc = "parse_ret"
    /\ IF caller = "get_volume_info"
       THEN /\ info' = extend(info, item_info)
            /\ origin' = extend(origin, item_origin)
            /\ ri' = ri + 1
            /\ pc' = "rows"
       ELSE /\ pc' = "returned"
            /\ UNCHANGED <<info, origin, ri>>
    /\ response' = NoResponse
    /\ UNCHANGED <<fs_vars, site, volumes, runs, vi, df, manifest_failed,
                   nrows, caller, xml_path, doc, fi, item_info, item_origin, error,
                   http_gets, dl_vars>>

NoDl == [item |-> 0, requested |-> FALSE, logged |-> ""]

\* ------------------------------------------- parse_xml called on its own
ParsePaths == {"PMC7.xml", "oa/PMC000xxxxxx/PMC8.xml"}

ParseInit ==
    /\ pc = "parse"
    /\ dir_exists = TRUE /\ archives = TRUE /\ sidecar = None
    /\ figures_dir = FALSE /\ figures = {}
    /\ site = AllSrcs
    /\ volumes = << >> /\ runs = 0
    /\ vi = 0 /\ df = << >> /\ ri = 0 /\ info = << >> /\ origin = << >>
    /\ manifest_failed = FALSE /\ nrows = 0
    /\ caller = "script"
    /\ xml_path \in ParsePaths
    /\ doc \in AllDocs
    /\ fi = 1 /\ item_info = << >> /\ item_origin = << >> /\ error = ""
    /\ http_gets = 0 /\ response = NoResponse
    /\ volume_info = << >> /\ di = 0 /\ attempts = << >>
    /\ dl_last = NoDl

ParseNext == parse_fig \/ parse_done \/ parse_return

ParseSpec == ParseInit /\ [][ParseNext]_vars

\* ------------------------------------------------------------ the archive
\* The articles of the extracted archives, by their manifest row
\* ('Article File'), with their markup.
Corpus ==
    [f \in {"PMC000xxxxxx/PMC1.xml", "PMC000xxxxxx/PMC2.xml"} |->
        IF f = "PMC000xxxxxx/PMC1.xml"
        THEN Doc(Some("10.1/x"),
                 <<Fig("f1", "graphic", Some("g1.png"), Some("cap")),
                   Fig("f2", "none", None, None),
                   Fig("f3", "graphic", Some("a.b.tif"), None)>>)
        ELSE Doc(None,
                 <<Fig("f1", "media", Some("clip.avi"), None),
                   Fig("f2", "graphic", Some("g2.png"), None),
                   Fig("f3", "graphic", None, None),
                   Fig("f4", "graphic", Some("g4.png"), None)>>)]

\* Manifest rows: the articles of the corpus and one whose file is not
\* in the archive.
ArticleFiles == DOMAIN Corpus \cup {"PMC000xxxxxx/PMC3.xml"}

RECURSIVE RowSeqs(_)
RowSeqs(n) ==
    IF n = 0 THEN {<< >>}
    ELSE {Append(s, f) : s \in RowSeqs(n - 1), f \in ArticleFiles}

\* the manifests of at most n rows
Manifests(n) == UNION {RowSeqs(k) : k \in 0..n}

extraction_dir == "oa"

\* volume = f'PMC00{volume_id}xxxxxx'
volume_of(volume_id) == "PMC00" \o ToString(volume_id) \o "xxxxxx"

\* ------------------------------------------------ utils: the JSONL sidecar
JsonString(s) == [t |-> "string", s |-> s]
JsonNull == [t |-> "null", s |-> ""]

json_dumps(d) ==
    [k \in DOMAIN d |->
        IF k = "Image_URL"
        THEN IF d[k] = None THEN JsonNull ELSE JsonString(d[k][1])
        ELSE JsonString(d[k])]

json_loads(line) ==
    [k \in DOMAIN line |->
        IF k = "Image_URL"
        THEN IF line[k].t = "null" THEN None ELSE Some(line[k].s)
        ELSE line[k].s]

write_jsonl(data_list) == [i \in 1..Len(data_list) |-> json_dumps(data_list[i])]

read_jsonl(lines) == [i \in 1..Len(lines) |-> json_loads(lines[i])]

\* --------------------------------------------------- fetch_oa.py: the run
\* the locals of a fresh process
FreshLocals ==
    /\ vi' = 0 /\ df' = << >> /\ ri' = 0 /\ info' = << >> /\ origin' = << >>
    /\ manifest_failed' = FALSE /\ nrows' = 0
    /\ caller' = "get_volume_info" /\ xml_path' = "" /\ doc' = NoDoc
    /\ fi' = 0 /\ item_info' = << >> /\ item_origin' = << >> /\ error' = ""
    /\ http_gets' = 0 /\ response' = NoResponse
    /\ volume_info' = << >> /\ di' = 0 /\ attempts' = << >> /\ dl_last' = NoDl

\* len(os.listdir(args.extraction_dir)) > 0
DirNonEmpty == archives \/ sidecar # None \/ figures_dir

\* args = parse_args_oa(); provide_extraction_dir()
provide_extraction_dir ==
    /\ pc \in {"idle", "exit"}
    /\ runs < MaxRuns
    /\ runs' = runs + 1
    /\ FreshLocals
    /\ \E keep_archives \in BOOLEAN, delete_extraction_dir \in BOOLEAN :
        IF ~dir_exists
        THEN /\ dir_exists' = TRUE
             /\ pc' = "archive"
             /\ UNCHANGED <<archives, sidecar, figures_dir, figures>>
        ELSE IF DirNonEmpty /\ ~keep_archives /\ delete_extraction_dir
        THEN /\ archives' = FALSE /\ sidecar' = None
             /\ figures_dir' = FALSE /\ figures' = {}
             /\ pc' = "archive"
             /\ UNCHANGED dir_exists
        ELSE IF DirNonEmpty /\ ~keep_archives
        THEN \* raise: logged by the main flow, which ends
             /\ pc' = "exit"
             /\ UNCHANGED fs_vars
        ELSE /\ pc' = "archive"
             /\ UNCHANGED fs_vars
    /\ UNCHANGED <<site, volumes>>

\* download_archive(volumes=args.volumes): wget and tar may fail
download_archive ==
    /\ pc = "archive"
    /\ \E got \in BOOLEAN : archives' = (archives \/ got)
    /\ pc' = "load"
    /\ UNCHANGED <<dir_exists, sidecar, figures_dir, figures, site, volumes,
                   runs, walk_vars, parse_vars, dl_vars>>

load_or_extract_always_extracts ==
    /\ pc = "load"
    /\ vi' = 1 /\ pc' = "volume"
    /\ UNCHANGED <<fs_vars, site, volumes, runs, df, ri, info, origin,
                   manifest_failed, nrows, parse_vars, dl_vars>>

\* if not os.path.exists(volume_info_path): ... else: read_jsonl
load_or_extract ==
    /\ pc = "load"
    /\ IF sidecar = None
       THEN /\ vi' = 1 /\ pc' = "volume"
            /\ UNCHANGED volume_info
       ELSE /\ volume_info' = read_jsonl(sidecar[1])
            /\ pc' = "media"
            /\ UNCHANGED vi
    /\ UNCHANGED <<fs_vars, site, volumes, runs, df, ri, info, origin,
                   manifest_failed, nrows, parse_vars, di, attempts, dl_last>>

\* ---------------------------------------------------------- get_volume_info
\* for volume_id in volumes: df = pd.read_csv(file_path); after the last
\* volume, return info.  Without the archives there is no manifest.
read_manifest ==
    /\ pc = "volume"
    /\ IF vi > Len(volumes)
       THEN /\ pc' = "write"
            /\ UNCHANGED <<df, ri, manifest_failed, nrows>>
       ELSE \E raises \in (IF archives THEN BOOLEAN ELSE {TRUE}) :
              IF raises
              THEN \* except Exception: print, then return info
                   /\ manifest_failed' = TRUE
                   /\ pc' = "write"
                   /\ UNCHANGED <<df, ri, nrows>>
              ELSE \E rows \in Manifests(MaxArticles - nrows) :
                      /\ df' = rows
                      /\ nrows' = nrows + Len(rows)
                      /\ ri' = 1
                      /\ pc' = "rows"
                      /\ UNCHANGED manifest_failed
    /\ UNCHANGED <<fs_vars, site, volumes, runs, vi, info, origin,
                   parse_vars, dl_vars>>

\* for idx in range(len(df)): xml_path = ...; item_info = parse_xml(xml_path)
\* up to the end of parse_xml's read of the file
next_row ==
    /\ pc = "rows"
    /\ IF ri > Len(df)
       THEN /\ vi' = vi + 1
            /\ pc' = "volume"
            /\ UNCHANGED parse_vars
       ELSE LET path == extraction_dir \o "/" \o volume_of(volumes[vi])
                            \o "/" \o df[ri] IN
            /\ xml_path' = path
            /\ item_info' = << >> /\ item_origin' = << >>
            /\ http_gets' = 0
            /\ IF df[ri] \in DOMAIN Corpus
               THEN /\ doc' = Corpus[df[ri]]
                    /\ fi' = 1
                    /\ error' = ""
                    /\ pc' = "parse"
               ELSE \* codecs.open raises: caught by parse_xml's handler
                    /\ doc' = NoDoc
                    /\ fi' = 0
                    /\ error' = "FileNotFoundError"
                    /\ pc' = "parse_ret"
            /\ UNCHANGED <<vi, caller, response>>
    /\ UNCHANGED <<fs_vars, site, volumes, runs, df, ri, info, origin,
                   manifest_failed, nrows, dl_vars>>

\* write_jsonl(volume_info, volume_info_path)
write_sidecar ==
    /\ pc = "write"
    /\ volume_info' = info
    /\ sidecar' = Some(write_jsonl(info))
    /\ pc' = "media"
    /\ UNCHANGED <<dir_exists, archives, figures_dir, figures, site, volumes,
                   runs, walk_vars, parse_vars, di, attempts, dl_last>>

\* ------------------------------------------------------------ download_media
\* figures_dir = ...; os.makedirs(figures_dir) unless it exists
download_media_start ==
    /\ pc = "media"
    /\ figures_dir' = TRUE
    /\ di' = 1
    /\ pc' = "dl_loop"
    /\ UNCHANGED <<dir_exists, archives, sidecar, figures, site, volumes,
                   runs, walk_vars, parse_vars, volume_info, attempts, dl_last>>

DlOutcome(requested, logged) ==
    [item |-> di, requested |-> requested, logged |-> logged]

\* The check after the fetch: the file must be at figures_dir/media_name.
after_fetch(obj, requested) ==
    /\ dl_last' = DlOutcome(requested,
                            IF obj.media_name \in figures'
                            THEN "" ELSE "RuntimeError")

\* subprocess.call(['wget', '-nc', '-nd', '-c', '-q', '-P', figures_dir,
\* direct_img_url]): None in the argument list raises TypeError; wget
\* saves under the last segment of the URL, and with -nc leaves a file of
\* that name alone without asking the server.
wget(obj) ==
    IF obj.Image_URL = None
    THEN /\ dl_last' = DlOutcome(FALSE, "TypeError")
         /\ UNCHANGED figures
    ELSE LET target == LastSegment(obj.Image_URL[1]) IN
         IF target \in figures
         THEN /\ UNCHANGED figures
              /\ after_fetch(obj, FALSE)
         ELSE \E saved \in BOOLEAN :
                /\ figures' = IF saved THEN figures \cup {target} ELSE figures
                /\ after_fetch(obj, TRUE)

download_item_stops_on_failure ==
    /\ pc = "dl_loop"
    /\ di <= Len(volume_info)
    /\ attempts' = Append(attempts, volume_info[di].media_name)
    /\ wget(volume_info[di])
    /\ IF dl_last'.logged = ""
       THEN di' = di + 1
       ELSE di' = Len(volume_info) + 1
    /\ UNCHANGED <<pc, dir_exists, archives, sidecar, figures_dir, site,
                   volumes, runs, walk_vars, parse_vars, volume_info>>

\* one turn of "for obj in tqdm(volume_info)": the inner except logs
download_item ==
    /\ pc = "dl_loop"
    /\ di <= Len(volume_info)
    /\ attempts' = Append(attempts, volume_info[di].media_name)
    /\ wget(volume_info[di])
    /\ di' = di + 1
    /\ UNCHANGED <<pc, dir_exists, archives, sidecar, figures_dir, site,
                   volumes, runs, walk_vars, parse_vars, volume_info>>

\* the loop is over: logger.info('Media download complete.')
download_media_end ==
    /\ pc = "dl_loop"
    /\ di > Len(volume_info)
    /\ pc' = "exit"
    /\ UNCHANGED <<fs_vars, site, volumes, runs, walk_vars, parse_vars,
                   dl_vars>>

\* ------------------------------------------------------------ the pipeline
Init ==
    /\ pc = "idle"
    \* a directory that does not exist yet, or one whose figures directory
    \* holds a file PMC1_f1.jpg left by an earlier download
    /\ \/ /\ dir_exists = FALSE /\ figures_dir = FALSE /\ figures = {}
       \/ /\ dir_exists = TRUE /\ figures_dir = TRUE
          /\ figures = {"PMC1_f1.jpg"}
    /\ archives = FALSE /\ sidecar = None
    /\ site = {"//cdn/bin/a.jpg"}
    /\ volumes \in {<<0, 1>>, <<1, 0>>}
    /\ runs = 0
    /\ vi = 0 /\ df = << >> /\ ri = 0 /\ info = << >> /\ origin = << >>
    /\ manifest_failed = FALSE /\ nrows = 0
    /\ caller = "get_volume_info" /\ xml_path = "" /\ doc = NoDoc
    /\ fi = 0 /\ item_info = << >> /\ item_origin = << >> /\ error = ""
    /\ http_gets = 0 /\ response = NoResponse
    /\ volume_info = << >> /\ di = 0 /\ attempts = << >> /\ dl_last = NoDl

Next ==
    \/ provide_extraction_dir
    \/ download_archive
    \/ load_or_extract
    \/ read_manifest
    \/ next_row
    \/ parse_fig
    \/ parse_done
    \/ parse_return
    \/ write_sidecar
    \/ download_media_start
    \/ download_item
    \/ download_media_end

Spec == Init /\ [][Next]_vars

\* ------------------------------------------- try.py: the other downloader
MaxItems == 2       \* lines of the JSONL file given to try.py

\* item.get(key)
Get(item, key) == IF key \in DOMAIN item THEN Some(item[key]) ELSE None

\* the truth value of item.get(key): present and not the empty string
Truthy(v) == v # None /\ v[1] # ""

\* Lines of a JSONL file: descriptors as parse_xml writes them (they have
\* no 'media_url') and objects that carry 'media_url' and 'media_name'.
TryItems ==
    {Descriptor("PMC1", Fig("f1", "graphic", Some("g1.png"), None), u, None) :
        u \in {None, Some("https://cdn/bin/a.jpg")}}
    \cup {[media_url |-> get_img_url("PMC1", "f1"), media_name |-> n] :
            n \in {"PMC1_f1.jpg", ""}}

RECURSIVE ItemSeqs(_)
ItemSeqs(n) ==
    IF n = 0 THEN {<< >>}
    ELSE {Append(s, i) : s \in ItemSeqs(n - 1), i \in TryItems}

\* download_image(url, save_path): the GET raises or answers; only a 200
\* answer opens save_path with 'wb' and writes it, over a file that is
\* already there.
download_image(media_name) ==
    \E got \in {"raises", "status", "written"} :
        /\ figures' = IF got = "written"
                      THEN figures \cup {media_name} ELSE figures
        /\ dl_last' = DlOutcome(TRUE,
                                IF got = "raises" THEN "Error downloading"
                                ELSE IF got = "status"
                                     THEN "Failed to download image" ELSE "")

\* one turn of "for item in tqdm(reader)" of download_images_from_jsonl
try_item ==
    /\ pc = "try_loop"
    /\ di <= Len(volume_info)
    /\ LET item == volume_info[di]
           media_url == Get(item, "media_url")
           media_name == Get(item, "media_name") IN
       IF Truthy(media_url) /\ Truthy(media_name)
       THEN \E resp \in Responses(site) :
              /\ response' = resp
              /\ IF get_direct_image_url(resp) # None
                 THEN download_image(media_name[1])
                 ELSE /\ dl_last' =
                            DlOutcome(FALSE, "Could not find direct image URL")
                      /\ UNCHANGED figures
       ELSE /\ dl_last' = DlOutcome(FALSE, "")
            /\ UNCHANGED <<figures, response>>
    /\ di' = di + 1
    /\ UNCHANGED <<pc, dir_exists, archives, sidecar, figures_dir, site,
                   volumes, runs, walk_vars, caller, xml_path, doc, fi,
                   item_info, item_origin, error, http_gets, volume_info,
                   attempts>>

\* the reader is exhausted: print("Image download process completed.")
try_end ==
    /\ pc = "try_loop"
    /\ di > Len(volume_info)
    /\ pc' = "try_exit"
    /\ UNCHANGED <<fs_vars, site, volumes, runs, walk_vars, parse_vars,
                   dl_vars>>

\* download_images_from_jsonl(jsonl_file, download_dir) after
\* os.makedirs(download_dir, exist_ok=True)
TryInit ==
    /\ pc = "try_loop"
    /\ dir_exists = TRUE /\ archives = FALSE /\ sidecar = None
    /\ figures_dir = TRUE
    /\ figures \in {{}, {"PMC1_f1.jpg"}}
    /\ site = {"//cdn/bin/a.jpg"}
    /\ volumes = << >> /\ runs = 0
    /\ vi = 0 /\ df = << >> /\ ri = 0 /\ info = << >> /\ origin = << >>
    /\ manifest_failed = FALSE /\ nrows = 0
    /\ caller = "script" /\ xml_path = "" /\ doc = NoDoc
    /\ fi = 0 /\ item_info = << >> /\ item_origin = << >> /\ error = ""
    /\ http_gets = 0 /\ response = NoResponse
    /\ volume_info \in UNION {ItemSeqs(n) : n \in 0..MaxItems}
    /\ di = 1 /\ attempts = << >> /\ dl_last = NoDl

TryNext == try_item \/ try_end

TrySpec == TryInit /\ [][TryNext]_vars

\* =================================================================== claims
Last(seq) == seq[Len(seq)]

IsFailure(resp) == resp.raises \/ resp.status # 200 \/ resp.marker # "src"

IsGraphicWithHref(fig) == fig.child = "graphic" /\ fig.href # None

\* the article identifier the file name of the stand-alone parse stands for
ExpectedId == IF xml_path = "PMC7.xml" THEN "PMC7" ELSE "PMC8"

\* C1 (as claimed): parse_xml of an article with a fig element that has
\* neither a graphic nor a media child fails with UnsupportedMediaError.
C1_NeitherRaisesUnsupported ==
    (pc = "returned" /\ \E i \in 1..Len(doc.figs) : doc.figs[i].child = "none")
        => error = "UnsupportedMediaError"

\* C1 (amended): a fig element with neither a graphic nor a media child
\* contributes no descriptor and is skipped silently: parse_xml raises and
\* logs nothing, issues no request and goes on with the next figure.
C1_NeitherSkippedSilently ==
    [][(pc = "parse" /\ fi <= Len(doc.figs) /\ CurFig.child = "none")
        => /\ pc' = "parse"
           /\ fi' = fi + 1
           /\ item_info' = item_info
           /\ error' = error
           /\ http_gets' = http_gets]_vars

C1_Witness ==
    /\ pc = "returned"
    /\ Len(doc.figs) = 2
    /\ doc.figs[1].child = "none"
    /\ Len(item_info) = 1
    /\ item_info[1].media_id = "f2"
    /\ error = ""

\* C2 (as claimed): once the read of a volume's manifest has failed, the
\* run aborts: get_volume_info returns nothing to the main flow, no
\* sidecar is written and no download starts.
C2_ManifestFailureAborts ==
    manifest_failed =>
        /\ pc \notin {"write", "media", "dl_loop"}
        /\ sidecar = None

\* C3 (as claimed): when the file figures_dir/media_name of an item exists
\* before the item is processed, the downloader asks the server for
\* nothing and leaves the figures directory as it is.
C3_ExistingDestinationNotFetched ==
    [][(pc = "dl_loop" /\ di <= Len(volume_info)
            /\ volume_info[di].media_name \in figures)
        => /\ ~dl_last'.requested
           /\ figures' = figures]_vars

\* where the descriptor at origin o was read: volume position, row, fig
Precedes(o1, o2) ==
    \/ o1[1] < o2[1]
    \/ o1[1] = o2[1] /\ o1[2] < o2[2]
    \/ o1[1] = o2[1] /\ o1[2] = o2[2] /\ o1[3] < o2[3]

\* C4: the aggregate of get_volume_info holds each descriptor once, in
\* the order of the volumes as given, then of the manifest rows, then of
\* the fig elements in the document; every element is the descriptor of
\* the fig element it was read from.
C4_AggregateOrder ==
    pc \in {"rows", "write"} =>
        /\ Len(origin) = Len(info)
        /\ \A k \in 1..Len(info) :
            /\ \E row \in DOMAIN Corpus :
                /\ origin[k][4] = extraction_dir \o "/"
                        \o volume_of(volumes[origin[k][1]]) \o "/" \o row
                /\ info[k].media_id = Corpus[row].figs[origin[k][3]].id
                /\ IsGraphicWithHref(Corpus[row].figs[origin[k][3]])
            /\ info[k].PMC_ID = PMC_ID_of(origin[k][4])
            /\ \A j \in 1..(k - 1) : Precedes(origin[j], origin[k])

C4_Witness ==
    /\ pc = "write"
    /\ Len(info) = 3
    /\ origin[1][1] = 1 /\ origin[3][1] = 2
    /\ origin[1][2] = origin[2][2] /\ origin[1][3] < origin[2][3]

\* C5: a failed resolution (the request raises, a status other than 200,
\* a page without the marker img or without its src) leaves that one
\* descriptor without URL and nothing else: parse_xml records the
\* descriptor, logs no error and goes on with the next figure, whatever
\* the answer of the site.
C5_ResolutionFailureIsolated ==
    /\ []((pc = "parse" /\ response # NoResponse /\ IsFailure(response))
            => /\ Len(item_info) > 0
               /\ Last(item_info).Image_URL = None)
    /\ [][(pc = "parse" /\ fi <= Len(doc.figs) /\ IsGraphicWithHref(CurFig))
            => /\ pc' = "parse"
               /\ fi' = fi + 1
               /\ Len(item_info') = Len(item_info) + 1
               /\ SubSeq(item_info', 1, Len(item_info)) = item_info
               /\ Last(item_info').media_id = CurFig.id
               /\ error' = error]_vars
    /\ [][pc = "parse_ret" => /\ pc' = "rows"
                              /\ info' = info \o item_info]_vars

C5_Witness ==
    /\ pc = "write"
    /\ Len(info) >= 2
    /\ info[1].Image_URL = None
    /\ info[2].Image_URL # None
    /\ info[1].PMC_ID # info[2].PMC_ID

C7_ExtractionOffline ==
    [][pc = "parse" => http_gets' <= http_gets]_vars

\* C7 (amended): while parse_xml runs it issues one HTTP GET for each fig
\* element with a graphic child (carrying its href), when it processes
\* that element, and none for any other; the steps of get_volume_info
\* around it issue none.
C7_OneGetPerGraphicFigure ==
    /\ [][pc = "parse"
            => http_gets' = http_gets +
                  (IF fi <= Len(doc.figs) /\ IsGraphicWithHref(CurFig)
                   THEN 1 ELSE 0)]_vars
    /\ [][(pc \in {"volume", "rows", "parse_ret", "write"})
            => http_gets' <= http_gets]_vars

C7_Witness ==
    /\ pc = "parse_ret"
    /\ Len(doc.figs) = 3
    /\ http_gets = 2
    /\ Len(item_info) = 2

ScenarioA ==
    /\ Len(doc.figs) = 2
    /\ doc.figs[1].id = "f1" /\ IsGraphicWithHref(doc.figs[1])
    /\ doc.figs[2].id = "f2" /\ doc.figs[2].child = "media"
    /\ doc.figs[2].href = Some("clip.avi")

\* C9 (as claimed): scenario A yields two descriptors, <id>_f1.jpg and
\* <id>_f2.avi, in that order.
C9_TwoDescriptors ==
    (pc = "returned" /\ ScenarioA)
        => /\ Len(item_info) = 2
           /\ item_info[1].media_name = ExpectedId \o "_f1.jpg"
           /\ item_info[2].media_name = ExpectedId \o "_f2.avi"

\* C9 (amended): scenario A yields exactly one descriptor, that of f1,
\* named <id>_f1.jpg whatever the extension of the image reference; the
\* video figure f2 yields none.
C9_OnlyImageDescriptor ==
    (pc = "returned" /\ ScenarioA)
        => /\ Len(item_info) = 1
           /\ item_info[1].PMC_ID = ExpectedId
           /\ item_info[1].media_id = "f1"
           /\ item_info[1].media_name = ExpectedId \o "_f1.jpg"
           /\ error = ""

C9_Witness ==
    /\ pc = "returned"
    /\ ScenarioA
    /\ doc.figs[1].href = Some("a.b.tif")
    /\ xml_path = "oa/PMC000xxxxxx/PMC8.xml"
    /\ Len(item_info) = 1

\* C10 (as claimed): once the sidecar exists, no later step of any run
\* changes it.
C10_SidecarWriteOnce ==
    [][sidecar # None => sidecar' = sidecar]_vars

\* C10 (amended): an existing sidecar changes only by being deleted with
\* the directory's contents at the start of a run (-d without
\* --keep-archives); get_volume_info runs only while no sidecar exists;
\* and download_media is given exactly the descriptors the sidecar holds.
C10_SidecarKeptUnlessDeleted ==
    /\ [][(sidecar # None /\ sidecar' # sidecar)
            => /\ pc \in {"idle", "exit"}
               /\ sidecar' = None]_vars
    /\ [](pc \in {"volume", "rows", "parse", "parse_ret", "write"}
            => sidecar = None)
    /\ [](pc \in {"media", "dl_loop"}
            => /\ sidecar # None
               /\ volume_info = read_jsonl(sidecar[1]))

C10_Witness ==
    /\ runs = 2
    /\ pc = "dl_loop"
    /\ vi = 0
    /\ sidecar # None
    /\ Len(volume_info) = 2
    /\ volume_info[1].Image_URL = None
    /\ volume_info[2].Image_URL # None

====
